---- MODULE Spec2Model ----
(***************************************************************************)
(* Model of imagej_tiff_meta/wrapper.py: the ImageJ ROI record codec       *)
(* (imagej_create_roi, imagej_parse_overlay), the metadata block assembler *)
(* (imagej_prepare_metadata) and the patched TiffWriter session            *)
(* (__init__, add_roi, save).                                              *)
(*                                                                         *)
(* Representation.  A bytes object is a sequence of naturals 0..255.  A    *)
(* Python str is a sequence of Unicode code points.  An optional value is  *)
(* a sequence of length at most one: None is <<>>, a present value v is    *)
(* <<v>>.  numpy integer fields keep their width: a store into an i1, u1   *)
(* or i2 field wraps modulo 2^8 or 2^16; i4 fields hold 32-bit values.     *)
(* Point arrays are taken to be int64 arrays, so the translation by the    *)
(* minimum does not wrap and only the casts to int16 do.                   *)
(***************************************************************************)
EXTENDS Integers, Sequences, FiniteSets, TLC

VARIABLES
    ijm_roi_data,        \* self._ijm_roi_data: list of encoded ROI records
    ijm_rois_per_frame,  \* self._ijm_rois_per_frame: dict frame -> count
    ijm_first_written,   \* self._ijm_first_written
    history,             \* calls made on the writer, with what each produced
    step,                  \* position of the codec pipeline
    params,                \* arguments of the last imagej_create_roi call
    encoded,             \* bytes returned by imagej_create_roi
    patch,               \* how the decoder's buffer was derived from encoded
    data,                \* buffer handed to imagej_parse_overlay
    parsed              \* result of imagej_parse_overlay

vars == <<ijm_roi_data, ijm_rois_per_frame, ijm_first_written, history,
          step, params, encoded, patch, data, parsed>>

sessionVars == <<ijm_roi_data, ijm_rois_per_frame, ijm_first_written, history>>

codecVars == <<step, params, encoded, patch, data, parsed>>

----------------------------------------------------------------------------
(* Python values *)

None == <<>>

Some(v) == <<v>>

RECURSIVE Concat(_)
\* b''.join(seqs)
Concat(seqs) ==
    IF seqs = <<>> THEN <<>> ELSE Head(seqs) \o Concat(Tail(seqs))

RECURSIVE SumSeq(_)
SumSeq(s) == IF s = <<>> THEN 0 ELSE Head(s) + SumSeq(Tail(s))

\* Python's s[start:stop] on a sequence of length n: negative indices count
\* from the end, both ends are clamped, an empty range yields nothing.
PySlice(s, start, stop) ==
    LET n  == Len(s)
        a0 == IF start < 0 THEN start + n ELSE start
        b0 == IF stop < 0 THEN stop + n ELSE stop
        a  == IF a0 < 0 THEN 0 ELSE IF a0 > n THEN n ELSE a0
        b  == IF b0 < 0 THEN 0 ELSE IF b0 > n THEN n ELSE b0
    IN  IF b <= a THEN <<>> ELSE SubSeq(s, a + 1, b)

----------------------------------------------------------------------------
(* Fixed-width integers *)

\* two's complement value of v in a signed field of the given bit width (<= 16)
WrapSigned(v, bits) ==
    LET m == 2 ^ bits
        u == v % m
    IN  IF u >= m \div 2 THEN u - m ELSE u

Wrap16(v) == WrapSigned(v, 16)

\* big-endian bytes of a signed or unsigned value in nbytes bytes
BytesBE(v, nbytes) ==
    [k \in 1..nbytes |-> (v \div (256 ^ (nbytes - k))) % 256]

\* signed big-endian value of a byte sequence of length 1, 2 or 4
SignedBE(b) ==
    LET n  == Len(b)
        hi == IF b[1] >= 128 THEN b[1] - 256 ELSE b[1]
    IN  IF n = 1 THEN hi
        ELSE IF n = 2 THEN hi * 256 + b[2]
        ELSE ((hi * 256 + b[2]) * 256 + b[3]) * 256 + b[4]

----------------------------------------------------------------------------
(* Constants of the format *)

CONSTANT_MAGIC_NUMBER == 1229605194   \* 0x494a494a "IJIJ"

CONSTANT_ROI == 1919904032            \* 0x726f6920 "roi "

CONSTANT_OVERLAY == 1870030194        \* 0x6f766572 "over"

CONST_IJ_POLYGON == 0

CONST_IJ_RECT == 1

CONST_IJ_OVAL == 2

CONST_IJ_LINE == 3

CONST_IJ_FREELINE == 4

CONST_IJ_POLYLINE == 5

CONST_IJ_NOROI == 6

CONST_IJ_FREEHAND == 7

CONST_IJ_TRACED == 8

CONST_IJ_ANGLE == 9

CONST_IJ_POINT == 10

IJM_ROI_VERSION == 226

\* a field layout is a sequence of <<name, numpy type code>>, in wire order
\* the layout without the rounded_rect_arc_size field
IMAGEJ_ROI_HEADER_short == <<
    <<"_iout", "4a1">>, <<"version", "i2">>, <<"roi_type", "i1">>,
    <<"_pad_byte", "u1">>, <<"top", "i2">>, <<"left", "i2">>, <<"bottom", "i2">>, <<"right", "i2">>,
    <<"n_coordinates", "i2">>,
    <<"x1", "i4">>, <<"y1", "i4">>, <<"x2", "i4">>, <<"y2", "i4">>,
    <<"stroke_width", "i2">>, <<"shape_roi_size", "i4">>,
    <<"stroke_color", "i4">>, <<"fill_color", "i4">>,
    <<"subtype", "i2">>, <<"options", "i2">>,
    <<"arrow_style_or_aspect_ratio", "u1">>, <<"arrow_head_size", "u1">>,
    <<"position", "i4">>, <<"header2_offset", "i4">> >>

IMAGEJ_ROI_HEADER == <<
    <<"_iout", "4a1">>,
    <<"version", "i2">>,
    <<"roi_type", "i1">>,
    <<"_pad_byte", "u1">>,
    <<"top", "i2">>,
    <<"left", "i2">>,
    <<"bottom", "i2">>,
    <<"right", "i2">>,
    <<"n_coordinates", "i2">>,
    <<"x1", "i4">>,
    <<"y1", "i4">>,
    <<"x2", "i4">>,
    <<"y2", "i4">>,
    <<"stroke_width", "i2">>,
    <<"shape_roi_size", "i4">>,
    <<"stroke_color", "i4">>,
    <<"fill_color", "i4">>,
    <<"subtype", "i2">>,
    <<"options", "i2">>,
    <<"arrow_style_or_aspect_ratio", "u1">>,
    <<"arrow_head_size", "u1">>,
    <<"rounded_rect_arc_size", "i2">>,
    <<"position", "i4">>,
    <<"header2_offset", "i4">> >>

IMAGEJ_ROI_HEADER2 == <<
    <<"_nil", "i4">>,
    <<"c", "i4">>,
    <<"z", "i4">>,
    <<"t", "i4">>,
    <<"name_offset", "i4">>,
    <<"name_length", "i4">>,
    <<"overlay_label_color", "i4">>,
    <<"overlay_font_size", "i2">>,
    <<"available_byte1", "i1">>,
    <<"image_opacity", "i1">>,
    <<"image_size", "i4">>,
    <<"float_stroke_width", "f4">>,
    <<"roi_props_offset", "i4">>,
    <<"roi_props_length", "i4">>,
    <<"counters_offset", "i4">> >>

IMAGEJ_META_HEADER == <<
    <<"magic", "i4">>,
    <<"type", "i4">>,
    <<"count", "i4">> >>

\* the coordinate-bearing set with the rectangle type let in
IMAGEJ_SUPPORTED_OVERLAYS_with_rect == {
    CONST_IJ_POLYGON, CONST_IJ_RECT, CONST_IJ_FREEHAND, CONST_IJ_TRACED,
    CONST_IJ_POLYLINE, CONST_IJ_FREELINE, CONST_IJ_ANGLE, CONST_IJ_POINT }

IMAGEJ_SUPPORTED_OVERLAYS == {
    CONST_IJ_POLYGON,
    CONST_IJ_FREEHAND,
    CONST_IJ_TRACED,
    CONST_IJ_POLYLINE,
    CONST_IJ_FREELINE,
    CONST_IJ_ANGLE,
    CONST_IJ_POINT }

----------------------------------------------------------------------------
(* Fixed-layout records: numpy structured dtypes, big-endian, unaligned *)

\* bytes occupied by a field of the given numpy type code
TypeSize(type) ==
    CASE type = "4a1" -> 4
      [] type = "i1"  -> 1
      [] type = "u1"  -> 1
      [] type = "i2"  -> 2
      [] type = "i4"  -> 4
      [] type = "f4"  -> 4

RECURSIVE ItemSize(_)
\* dtype.itemsize of an unaligned layout: the sum of its field sizes
ItemSize(dtype) ==
    IF dtype = <<>> THEN 0
    ELSE TypeSize(Head(dtype)[2]) + ItemSize(Tail(dtype))

\* byte offset of the i-th field
FieldOffset(dtype, i) == ItemSize(SubSeq(dtype, 1, i - 1))

FieldNames(dtype) == {dtype[i][1] : i \in 1..Len(dtype)}

\* the value a store into a field of this type keeps (C cast, wrapping)
CastTo(type, v) ==
    CASE type = "4a1" -> v
      [] type = "i1"  -> WrapSigned(v, 8)
      [] type = "u1"  -> v % 256
      [] type = "i2"  -> WrapSigned(v, 16)
      [] type = "i4"  -> v
      [] type = "f4"  -> v

\* wire bytes of a field value; an f4 field is carried as its 32-bit pattern
FieldBytes(type, v) ==
    IF type = "4a1" THEN v ELSE BytesBE(v, TypeSize(type))

\* field value of wire bytes
FieldValue(type, b) ==
    CASE type = "4a1" -> b
      [] type = "u1"  -> b[1]
      [] OTHER        -> SignedBE(b)

\* record.tobytes()
ToBytes(dtype, rec) ==
    Concat([i \in 1..Len(dtype) |-> FieldBytes(dtype[i][2], rec[dtype[i][1]])])

\* setattr(record, name, v)
SetField(dtype, rec, name, v) ==
    LET i == CHOOSE j \in 1..Len(dtype) : dtype[j][1] = name
    IN  [rec EXCEPT ![name] = CastTo(dtype[i][2], v)]

\* new_record(dtype, data, offset).  Without data the record is zero filled.
\* With data, numpy refuses an offset outside the buffer (ValueError) and a
\* buffer with fewer than itemsize bytes left at the offset (TypeError).
new_record(dtype, buf, offset) ==
    IF buf = None
    THEN [ok  |-> TRUE,
          rec |-> [f \in FieldNames(dtype) |->
                     LET i == CHOOSE j \in 1..Len(dtype) : dtype[j][1] = f
                     IN  IF dtype[i][2] = "4a1" THEN <<0, 0, 0, 0>> ELSE 0]]
    ELSE LET bytes == buf[1] IN
         IF offset < 0 \/ offset > Len(bytes)
         THEN [ok |-> FALSE, error |-> "ValueError"]
         ELSE IF Len(bytes) - offset < ItemSize(dtype)
         THEN [ok |-> FALSE, error |-> "TypeError"]
         ELSE [ok  |-> TRUE,
               rec |-> [f \in FieldNames(dtype) |->
                          LET i   == CHOOSE j \in 1..Len(dtype) : dtype[j][1] = f
                              off == offset + FieldOffset(dtype, i)
                          IN  FieldValue(dtype[i][2],
                                  SubSeq(bytes, off + 1,
                                         off + TypeSize(dtype[i][2])))]]

----------------------------------------------------------------------------
(* Text *)

\* str.encode('utf-16be') of one code point (no lone surrogates among inputs)
Utf16Units(cp) ==
    IF cp < 65536 THEN <<cp>>
    ELSE <<55296 + ((cp - 65536) \div 1024), 56320 + ((cp - 65536) % 1024)>>

RECURSIVE Utf16beEncode(_)
\* name.encode('utf-16be')
Utf16beEncode(str) ==
    IF str = <<>> THEN <<>>
    ELSE LET u == Utf16Units(Head(str))
         IN  Concat([i \in 1..Len(u) |-> BytesBE(u[i], 2)])
             \o Utf16beEncode(Tail(str))

RECURSIVE Utf16beDecode(_)
\* str(b, 'utf-16be'): None stands for UnicodeDecodeError (an odd number of
\* bytes, a lone surrogate, or a high surrogate with no low one after it)
Utf16beDecode(b) ==
    IF Len(b) = 0 THEN Some(<<>>)
    ELSE IF Len(b) = 1 THEN None
    ELSE LET u == b[1] * 256 + b[2] IN
         IF u >= 56320 /\ u <= 57343 THEN None
         ELSE IF u >= 55296 /\ u <= 56319
         THEN IF Len(b) < 4 THEN None
              ELSE LET u2 == b[3] * 256 + b[4] IN
                   IF u2 < 56320 \/ u2 > 57343 THEN None
                   ELSE LET rest == Utf16beDecode(SubSeq(b, 5, Len(b))) IN
                        IF rest = None THEN None
                        ELSE Some(<<65536 + (u - 55296) * 1024 + (u2 - 56320)>>
                                  \o rest[1])
         ELSE LET rest == Utf16beDecode(SubSeq(b, 3, Len(b))) IN
              IF rest = None THEN None ELSE Some(<<u>> \o rest[1])

RECURSIVE Digits(_, _)
\* digits of n >= 0 in the given base, as code points ('0'..'9', 'a'..'f')
Digits(n, base) ==
    LET d  == n % base
        ch == IF d < 10 THEN 48 + d ELSE 97 + (d - 10)
    IN  IF n < base THEN <<ch>> ELSE Digits(n \div base, base) \o <<ch>>

\* '%d' % n
FormatD(n) == IF n < 0 THEN <<45>> \o Digits(0 - n, 10) ELSE Digits(n, 10)

\* '%02d' % n: zero padded to two characters, the sign counting as one
Format02d(n) ==
    IF n >= 0 /\ n < 10 THEN <<48>> \o Digits(n, 10) ELSE FormatD(n)

\* '%x' % n
FormatX(n) == IF n < 0 THEN <<45>> \o Digits(0 - n, 16) ELSE Digits(n, 16)

----------------------------------------------------------------------------
(* ROI record codec *)

MinOf(S) == CHOOSE m \in S : \A x \in S : m <= x

\* the coordinates written point by point (order='C') instead
CoordinateBytes_interleaved(pts) ==
    LET n == Len(pts) IN
    [k \in 1..(4 * n) |->
        LET j   == k - 1
            row == j \div 4
            col == (j % 4) \div 2
            u   == Wrap16(pts[row + 1][col + 1]) % 65536
        IN  IF j % 2 = 0 THEN u \div 256 ELSE u % 256]

\* points.astype('>i2').tobytes(order='F') of an (n, 2) array: the n first
\* coordinates, then the n second coordinates, two bytes each
CoordinateBytes(pts) ==
    LET n == Len(pts) IN
    [k \in 1..(4 * n) |->
        LET j   == k - 1
            col == j \div (2 * n)
            row == (j % (2 * n)) \div 2
            u   == Wrap16(pts[row + 1][col + 1]) % 65536
        IN  IF j % 2 = 0 THEN u \div 256 ELSE u % 256]

\* the name imagej_create_roi gives the record
imagej_create_roi_name(name, t, index, rnd) ==
    IF name = None
    THEN IF index = None
         THEN <<70>> \o Format02d(t + 1) \o <<45>> \o FormatX(rnd)
         ELSE <<70>> \o Format02d(t + 1) \o <<45, 67>> \o FormatD(index[1])
    ELSE name[1]

\* imagej_create_roi(points, name, c, z, t, index); rnd is the value drawn
\* from np.random.randint when neither a name nor an index is given
imagej_create_roi(points, name, c, z, t, index, rnd) ==
    LET nm   == imagej_create_roi_name(name, t, index, rnd)
        left == MinOf({points[i][1] : i \in 1..Len(points)})
        top  == MinOf({points[i][2] : i \in 1..Len(points)})
        pts  == [i \in 1..Len(points) |->
                    <<points[i][1] - left, points[i][2] - top>>]
        encoded_data      == CoordinateBytes(pts)
        encoded_data_size == Len(encoded_data)
        H    == IMAGEJ_ROI_HEADER
        h0   == new_record(H, None, 0).rec
        h1   == SetField(H, h0, "_iout", <<73, 111, 117, 116>>)
        h2   == SetField(H, h1, "version", IJM_ROI_VERSION)
        h3   == SetField(H, h2, "roi_type", CONST_IJ_FREEHAND)
        h4   == SetField(H, h3, "left", left)
        h5   == SetField(H, h4, "top", top)
        h6   == SetField(H, h5, "n_coordinates", Len(points))
        h7   == SetField(H, h6, "options", 40)
        h8   == SetField(H, h7, "position", t + 1)
        header == SetField(H, h8, "header2_offset",
                           ItemSize(H) + encoded_data_size)
        H2   == IMAGEJ_ROI_HEADER2
        g0   == new_record(H2, None, 0).rec
        g1   == SetField(H2, g0, "name_offset",
                         header["header2_offset"] + ItemSize(H2))
        header2 == SetField(H2, g1, "name_length", Len(nm))
    IN  ToBytes(H, header) \o encoded_data \o ToBytes(H2, header2)
        \o Utf16beEncode(nm)

\* a + b in np.int32 arithmetic (wrapping), for a and b within 32 bits
Add32(a, b) ==
    IF a > 0 /\ b > 0 /\ a > 2147483647 - b
    THEN ((a - 2147483647) - 1) + ((b - 2147483647) - 1)
    ELSE IF a < 0 /\ b < 0 /\ a < (0 - 2147483647) - 1 - b
    THEN ((a + 2147483647) + 1) + ((b + 2147483647) + 1)
    ELSE a + b

\* key[0] == '_'
IsPrivateKey(key) == key \in {"_iout", "_pad_byte", "_nil"}

\* np.ndarray(shape=(n, 2), dtype='>i2', buffer=buf, order='F').copy():
\* numpy refuses a negative dimension (ValueError) and a buffer shorter than
\* the 4 * n bytes of the array (TypeError)
CoordinateArray(n, buf) ==
    IF n < 0 THEN [ok |-> FALSE, error |-> "ValueError"]
    ELSE IF Len(buf) < 4 * n THEN [ok |-> FALSE, error |-> "TypeError"]
    ELSE [ok  |-> TRUE,
          arr |-> [i \in 1..n |->
                     <<SignedBE(SubSeq(buf, 2 * i - 1, 2 * i)),
                       SignedBE(SubSeq(buf, 2 * n + 2 * i - 1, 2 * n + 2 * i))>>]]

\* imagej_parse_overlay(data): the overlay dict, or the exception raised.  The
\* slice bounds are Python integers and numpy scalars combined under numpy's
\* scalar promotion (to int64), so header.itemsize + 2 * 2 * n_coordinates
\* does not wrap; name_offset + name_length * 2 stays np.int32.
imagej_parse_overlay(bytes) ==
    LET H  == IMAGEJ_ROI_HEADER
        H2 == IMAGEJ_ROI_HEADER2
        r1 == new_record(H, Some(bytes), 0)
    IN
    IF ~r1.ok THEN [ok |-> FALSE, error |-> r1.error]
    ELSE
    LET header == r1.rec
        r2     == new_record(H2, Some(bytes), header["header2_offset"])
    IN
    IF ~r2.ok THEN [ok |-> FALSE, error |-> r2.error]
    ELSE
    LET header2 == r2.rec
        name ==
            IF header2["name_offset"] > 0
            THEN Utf16beDecode(PySlice(bytes, header2["name_offset"],
                     Add32(header2["name_offset"],
                           Add32(header2["name_length"],
                                 header2["name_length"]))))
            ELSE Some(<<>>)
    IN
    IF name = None THEN [ok |-> FALSE, error |-> "UnicodeDecodeError"]
    ELSE
    LET coords ==
            IF header["roi_type"] \in IMAGEJ_SUPPORTED_OVERLAYS
            THEN CoordinateArray(header["n_coordinates"],
                     PySlice(bytes, ItemSize(H),
                             ItemSize(H) + 4 * header["n_coordinates"]))
            ELSE [ok |-> TRUE, arr |-> None]
    IN
    IF ~coords.ok THEN [ok |-> FALSE, error |-> coords.error]
    ELSE [ok          |-> TRUE,
          name        |-> name[1],
          coordinates |-> IF header["roi_type"] \in IMAGEJ_SUPPORTED_OVERLAYS
                          THEN Some(coords.arr) ELSE None,
          fields      |-> [key \in {k \in FieldNames(H) \cup FieldNames(H2) :
                                        ~IsPrivateKey(k)} |->
                             IF key \in FieldNames(H2)
                             THEN header2[key] ELSE header[key]]]

----------------------------------------------------------------------------
(* Metadata block assembler *)

\* the assembler with the block typed "roi " instead of "over"
imagej_prepare_metadata_roi_type(overlays) ==
    LET M  == IMAGEJ_META_HEADER
        m0 == new_record(M, None, 0).rec
        m1 == SetField(M, m0, "magic", CONSTANT_MAGIC_NUMBER)
        m2 == SetField(M, m1, "type", CONSTANT_ROI)
        mh == SetField(M, m2, "count", Len(overlays))
        meta_data   == ToBytes(M, mh) \o Concat(overlays)
        byte_counts == <<ItemSize(M)>>
                       \o [i \in 1..Len(overlays) |-> Len(overlays[i])]
    IN  <<meta_data, byte_counts>>

\* imagej_prepare_metadata(overlays): <<meta_data, byte_counts>>
imagej_prepare_metadata(overlays) ==
    LET M  == IMAGEJ_META_HEADER
        m0 == new_record(M, None, 0).rec
        m1 == SetField(M, m0, "magic", CONSTANT_MAGIC_NUMBER)
        m2 == SetField(M, m1, "type", CONSTANT_OVERLAY)
        mh == SetField(M, m2, "count", Len(overlays))
        meta_data   == ToBytes(M, mh) \o Concat(overlays)
        byte_counts == <<ItemSize(M)>>
                       \o [i \in 1..Len(overlays) |-> Len(overlays[i])]
    IN  <<meta_data, byte_counts>>

----------------------------------------------------------------------------
(* Bounds and inputs *)

MaxRois == 3      \* add_roi calls in one session

MaxSaves == 2     \* save calls in one session

MaxPoints == 2    \* points of an enumerated point sequence

Frames == {0, 9}

SessionPoints == { << <<10, 20>>, <<15, 25>> >> }

SessionNames == {None, Some(<<97>>), Some(<<128512>>)}

\* point sequences of 1..MaxPoints points over a small grid
PointSeqs ==
    UNION {[1..n -> {0 - 2, 3} \X {0, 5}] : n \in 1..MaxPoints}

\* "", "a", "e-acute b", one character outside the BMP, "a" + that character
BmpNames == {<<>>, <<97>>, <<233, 98>>}

AstralNames == {<<128512>>, <<97, 128512>>}

NameArgs(names) ==
    {[name |-> Some(n), index |-> None, rnd |-> 0] : n \in names}
    \cup {[name |-> None, index |-> Some(k), rnd |-> 0] : k \in {1, 12}}
    \cup {[name |-> None, index |-> None, rnd |-> r] : r \in {0, 48879}}

Inputs(pointSeqs, names) ==
    {[points |-> p, name |-> a.name, t |-> f, index |-> a.index,
      rnd |-> a.rnd] : p \in pointSeqs, a \in NameArgs(names), f \in Frames}

CodecInputs == Inputs(PointSeqs, BmpNames \cup AstralNames)

----------------------------------------------------------------------------
(* The writer session *)

\* TiffWriter.__init__
TiffWriter___init__ ==
    /\ ijm_roi_data = <<>>
    /\ ijm_rois_per_frame = <<>>
    /\ ijm_first_written = FALSE

Adds == {i \in 1..Len(history) : history[i].op = "add_roi"}

Saves == {i \in 1..Len(history) : history[i].op = "save"}

\* add_roi numbering the unnamed ROIs of all frames with one counter
TiffWriter_add_roi_one_counter(points, name, c, z, t) ==
    /\ Cardinality(Adds) < MaxRois
    /\ LET counted == IF 0 \in DOMAIN ijm_rois_per_frame
                      THEN ijm_rois_per_frame
                      ELSE ijm_rois_per_frame @@ (0 :> 0)
           bumped  == [counted EXCEPT ![0] = @ + 1]
           index   == IF name = None THEN Some(bumped[0]) ELSE None
           roi     == imagej_create_roi(points, name, c, z, t, index, 0)
       IN  /\ ijm_rois_per_frame' =
                  IF name = None THEN bumped ELSE ijm_rois_per_frame
           /\ ijm_roi_data' = Append(ijm_roi_data, roi)
           /\ history' = Append(history,
                  [op |-> "add_roi", name |-> name, t |-> t, roi |-> roi])
    /\ UNCHANGED ijm_first_written
    /\ UNCHANGED codecVars

\* add_roi putting the new record in front of the pending list
TiffWriter_add_roi_prepend(points, name, c, z, t) ==
    /\ Cardinality(Adds) < MaxRois
    /\ LET counted == IF t \in DOMAIN ijm_rois_per_frame
                      THEN ijm_rois_per_frame
                      ELSE ijm_rois_per_frame @@ (t :> 0)
           bumped  == [counted EXCEPT ![t] = @ + 1]
           index   == IF name = None THEN Some(bumped[t]) ELSE None
           roi     == imagej_create_roi(points, name, c, z, t, index, 0)
       IN  /\ ijm_rois_per_frame' =
                  IF name = None THEN bumped ELSE ijm_rois_per_frame
           /\ ijm_roi_data' = <<roi>> \o ijm_roi_data
           /\ history' = Append(history,
                  [op |-> "add_roi", name |-> name, t |-> t, roi |-> roi])
    /\ UNCHANGED ijm_first_written
    /\ UNCHANGED codecVars

\* TiffWriter.add_roi(points, name, c, z, t)
TiffWriter_add_roi(points, name, c, z, t) ==
    /\ Cardinality(Adds) < MaxRois
    /\ LET counted == IF t \in DOMAIN ijm_rois_per_frame
                      THEN ijm_rois_per_frame
                      ELSE ijm_rois_per_frame @@ (t :> 0)
           bumped  == [counted EXCEPT ![t] = @ + 1]
           index   == IF name = None THEN Some(bumped[t]) ELSE None
           roi     == imagej_create_roi(points, name, c, z, t, index, 0)
       IN  /\ ijm_rois_per_frame' =
                  IF name = None THEN bumped ELSE ijm_rois_per_frame
           /\ ijm_roi_data' = Append(ijm_roi_data, roi)
           /\ history' = Append(history,
                  [op |-> "add_roi", name |-> name, t |-> t, roi |-> roi])
    /\ UNCHANGED ijm_first_written
    /\ UNCHANGED codecVars

\* save that attaches the tags without recording that it did
TiffWriter_new_save_no_flag ==
    /\ Cardinality(Saves) < MaxSaves
    /\ IF ijm_first_written \/ Len(ijm_roi_data) = 0
       THEN /\ history' = Append(history, [op |-> "save", extratags |-> <<>>])
            /\ UNCHANGED ijm_first_written
       ELSE LET prepared    == imagej_prepare_metadata(ijm_roi_data)
                meta_data   == prepared[1]
                byte_counts == prepared[2]
            IN  /\ UNCHANGED ijm_first_written
                /\ history' = Append(history,
                       [op        |-> "save",
                        extratags |->
                           << <<50838, "I", Len(byte_counts), byte_counts, TRUE>>,
                              <<50839, "B", Len(meta_data), meta_data, TRUE>> >>])
    /\ UNCHANGED <<ijm_roi_data, ijm_rois_per_frame>>
    /\ UNCHANGED codecVars

\* TiffWriter.save(data): the call passed on to the original save is logged
\* with the extratags it is given (none: <<>>)
TiffWriter_new_save ==
    /\ Cardinality(Saves) < MaxSaves
    /\ IF ijm_first_written \/ Len(ijm_roi_data) = 0
       THEN /\ history' = Append(history, [op |-> "save", extratags |-> <<>>])
            /\ UNCHANGED ijm_first_written
       ELSE LET prepared    == imagej_prepare_metadata(ijm_roi_data)
                meta_data   == prepared[1]
                byte_counts == prepared[2]
            IN  /\ ijm_first_written' = TRUE
                /\ history' = Append(history,
                       [op        |-> "save",
                        extratags |->
                           << <<50838, "I", Len(byte_counts), byte_counts, TRUE>>,
                              <<50839, "B", Len(meta_data), meta_data, TRUE>> >>])
    /\ UNCHANGED <<ijm_roi_data, ijm_rois_per_frame>>
    /\ UNCHANGED codecVars

AddRoi ==
    \E points \in SessionPoints, name \in SessionNames, t \in Frames :
        TiffWriter_add_roi(points, name, 0, 0, t)

Save == TiffWriter_new_save

CodecIdle ==
    /\ step = "start"
    /\ params = <<>>
    /\ encoded = <<>>
    /\ patch = <<>>
    /\ data = <<>>
    /\ parsed = <<>>

Init ==
    /\ TiffWriter___init__
    /\ history = <<>>
    /\ CodecIdle

Next == AddRoi \/ Save

Spec == Init /\ [][Next]_vars

----------------------------------------------------------------------------
(* The codec: encode a ROI, hand a buffer to the decoder, decode it *)

\* buffers the container reader may hand over, derived from a record:
\* the record itself, its type byte replaced, the record cut short, an offset
\* or the name length replaced
Patches(rec) ==
    LET n == Len(rec) IN
    {[kind |-> "none", value |-> 0]}
    \cup {[kind |-> "roi_type", value |-> v] :
             v \in {0, 1, 2, 3, 6, 11, 127, 255}}
    \cup {[kind |-> "truncate", value |-> v] : v \in {0, 63, n - 3, n - 2, n - 1}}
    \cup {[kind |-> "header2_offset", value |-> v] : v \in {0 - 1, 0, n - 10, n}}
    \cup {[kind |-> "name_offset", value |-> v] : v \in {0 - 4, 0, n, n + 6}}
    \cup {[kind |-> "name_length", value |-> v] : v \in {0 - 1, 1, 40}}

\* rec with nbytes bytes at the 0-based offset replaced by the bytes of v
Poke(rec, offset, nbytes, v) ==
    [k \in 1..Len(rec) |->
        IF k > offset /\ k <= offset + nbytes
        THEN BytesBE(v, nbytes)[k - offset] ELSE rec[k]]

Header2OffsetOf(rec) ==
    SignedBE(SubSeq(rec, ItemSize(IMAGEJ_ROI_HEADER) - 3,
                    ItemSize(IMAGEJ_ROI_HEADER)))

ApplyPatch(rec, p) ==
    CASE p.kind = "none" -> rec
      [] p.kind = "roi_type" -> Poke(rec, 6, 1, p.value)
      [] p.kind = "truncate" ->
            SubSeq(rec, 1, IF p.value < 0 THEN 0 ELSE p.value)
      [] p.kind = "header2_offset" ->
            Poke(rec, ItemSize(IMAGEJ_ROI_HEADER) - 4, 4, p.value)
      [] p.kind = "name_offset" -> Poke(rec, Header2OffsetOf(rec) + 16, 4, p.value)
      [] p.kind = "name_length" -> Poke(rec, Header2OffsetOf(rec) + 20, 4, p.value)

CreateRoi(inputs) ==
    /\ step = "start"
    /\ \E a \in inputs :
          /\ params' = a
          /\ encoded' = imagej_create_roi(a.points, a.name, 0, 0, a.t,
                                          a.index, a.rnd)
    /\ step' = "encoded"
    /\ UNCHANGED <<patch, data, parsed>>
    /\ UNCHANGED sessionVars

HandOver ==
    /\ step = "encoded"
    /\ \E p \in Patches(encoded) :
          /\ patch' = p
          /\ data' = ApplyPatch(encoded, p)
    /\ step' = "buffered"
    /\ UNCHANGED <<params, encoded, parsed>>
    /\ UNCHANGED sessionVars

ParseOverlay ==
    /\ step = "buffered"
    /\ parsed' = imagej_parse_overlay(data)
    /\ step' = "parsed"
    /\ UNCHANGED <<params, encoded, patch, data>>
    /\ UNCHANGED sessionVars

NextCodec == CreateRoi(CodecInputs) \/ HandOver \/ ParseOverlay

SpecCodec == Init /\ [][NextCodec]_vars

----------------------------------------------------------------------------
(* The codec on long and on wide point sequences *)

\* the first point count the i2 field n_coordinates cannot hold
LongCount == 2 ^ 15

LongPointSeqs == {[i \in 1..LongCount |-> <<i % 2, 0>>]}

\* point sequences with coordinates beyond 16 bits: the minimum out of range
\* (the bounding box origin does not fit), or the spread out of range (a
\* translated coordinate does not fit)
WidePointSeqs ==
    { << <<40000, 7>> >>,
      << <<3, 0 - 40000>>, <<5, 0 - 39999>> >>,
      << <<0 - 2, 0>>, <<40000, 5>> >> }

LongInputs ==
    Inputs(PointSeqs, BmpNames)
    \cup {[points |-> p, name |-> None, index |-> None, rnd |-> 48879,
           t |-> 0] : p \in LongPointSeqs \cup WidePointSeqs}

NextLong == CreateRoi(LongInputs) \/ HandOver \/ ParseOverlay

SpecLong == Init /\ [][NextLong]_vars

----------------------------------------------------------------------------
(* Properties of the writer session (specification Spec) *)

\* the save calls that passed extra tags to the underlying writer
TaggedSaves == {i \in Saves : history[i].extratags # <<>>}

RECURSIVE RoisOf(_)
RoisOf(events) ==
    IF events = <<>> THEN <<>>
    ELSE IF Head(events).op = "add_roi"
         THEN <<Head(events).roi>> \o RoisOf(Tail(events))
         ELSE RoisOf(Tail(events))

\* the records add_roi produced before the i-th call, in call order
RoisBefore(i) == RoisOf(SubSeq(history, 1, i - 1))

ByteCountsOf(i) == history[i].extratags[1][4]

MetaDataOf(i) == history[i].extratags[2][4]

RECURSIVE Split(_, _)
\* a block cut into segments of the given lengths, as the consumer does
Split(block, lengths) ==
    IF lengths = <<>> THEN <<>>
    ELSE <<SubSeq(block, 1, Head(lengths))>>
         \o Split(SubSeq(block, Head(lengths) + 1, Len(block)), Tail(lengths))

\* C1 (as amended): at most one save call of a session passes the extra tags
\* 50838 and 50839, namely the first save made after some add_roi; every save
\* call after that one passes no extra tags.
C1_OneShotEmission ==
    /\ Cardinality(TaggedSaves) <= 1
    /\ \A i \in TaggedSaves :
          /\ history[i].extratags[1][1] = 50838
          /\ history[i].extratags[2][1] = 50839
          /\ \E a \in Adds : a < i
          /\ \A j \in Saves : j < i => \A a \in Adds : a > j
          /\ \A j \in Saves : j > i => history[j].extratags = <<>>

\* C1 witness: the tags were attached by one save and a later save followed
C1_Witness ==
    \E i \in TaggedSaves : \E j \in Saves : j > i

\* C1 (original): the attachment happens only on the first save call; the
\* second and every later save call passes no extra tags
C1_Original_OnlyFirstSaveAttaches ==
    \A i \in Saves : (\E j \in Saves : j < i) => history[i].extratags = <<>>

\* C2: the block handed over is the 12-byte header (magic 0x494A494A, type
\* 0x6F766572, count N) followed by the N records in add order; the length
\* list is the header size followed by the record lengths, has count + 1
\* entries and sums to the length of the block.
C2_BlockAssembly ==
    \A i \in TaggedSaves :
        LET rois == RoisBefore(i)
            N    == Len(rois)
            bc   == ByteCountsOf(i)
            md   == MetaDataOf(i)
        IN  /\ md = <<73, 74, 73, 74, 111, 118, 101, 114, 0, 0, 0, N>>
                    \o Concat(rois)
            /\ bc = <<12>> \o [k \in 1..N |-> Len(rois[k])]
            /\ Len(bc) = N + 1
            /\ SumSeq(bc) = Len(md)
            /\ history[i].extratags[1][3] = N + 1
            /\ history[i].extratags[2][3] = Len(md)

\* C2 witness: a block of three records, not all of one length, was assembled
C2_Witness ==
    \E i \in TaggedSaves :
        /\ Len(ByteCountsOf(i)) = 4
        /\ ByteCountsOf(i)[2] # ByteCountsOf(i)[3]

\* the unnamed add_roi calls for frame t among the first i calls
UnnamedAdds(t, i) ==
    {j \in Adds : j <= i /\ history[j].t = t /\ history[j].name = None}

\* "F%02d-C%d" % (t + 1, k) written out for 0 <= t + 1 < 100 and 0 <= k < 10
DefaultName(t, k) ==
    <<70, 48 + ((t + 1) \div 10), 48 + ((t + 1) % 10), 45, 67, 48 + k>>

\* the name a record carries: the text from its stored name_offset to its end
NameOfRecord(rec) ==
    LET h2o == SignedBE(SubSeq(rec, 61, 64))
        no  == SignedBE(SubSeq(rec, h2o + 17, h2o + 20))
    IN  Utf16beDecode(SubSeq(rec, no + 1, Len(rec)))

\* C5: the k-th add_roi call without a name for frame t produces a record
\* named "F%02d-C%d" % (t+1, k); a call with a name produces a record of that
\* name; and each frame's counter is the number of unnamed calls made for
\* that frame, so named calls and calls for other frames leave it alone.
C5_DefaultNames ==
    /\ \A i \in Adds :
          LET e == history[i]
          IN  NameOfRecord(e.roi) =
                 Some(IF e.name = None
                      THEN DefaultName(e.t, Cardinality(UnnamedAdds(e.t, i)))
                      ELSE e.name[1])
    /\ DOMAIN ijm_rois_per_frame =
          {t \in Frames : UnnamedAdds(t, Len(history)) # {}}
    /\ \A t \in DOMAIN ijm_rois_per_frame :
          ijm_rois_per_frame[t] = Cardinality(UnnamedAdds(t, Len(history)))

\* C5 witness: the second unnamed call for frame 9 came after a named call
C5_Witness ==
    \E i \in Adds :
        /\ history[i].name = None
        /\ history[i].t = 9
        /\ Cardinality(UnnamedAdds(9, i)) = 2
        /\ \E j \in Adds : j < i /\ history[j].name = Some(<<128512>>)

\* C10: the save that attaches the block is the first save made after some
\* add_roi; its block splits, by its own length table, into the header and
\* exactly the records added before it, in add order; every other save
\* attaches nothing; and the one-shot flag is set exactly when such a save
\* has been made.
C10_EmittedRecords ==
    /\ \A i \in Saves :
          LET before  == RoisBefore(i)
              emitted == \E j \in Saves : j < i /\ RoisBefore(j) # <<>>
          IN  IF before # <<>> /\ ~emitted
              THEN /\ history[i].extratags # <<>>
                   /\ Tail(Split(MetaDataOf(i), ByteCountsOf(i))) = before
                   /\ Len(MetaDataOf(i)) = SumSeq(ByteCountsOf(i))
              ELSE history[i].extratags = <<>>
    /\ ijm_first_written = (\E i \in Saves : RoisBefore(i) # <<>>)

\* C10 witness: a save on an empty list, then two adds, the emitting save,
\* and a ROI added after it
C10_Witness ==
    \E i \in TaggedSaves :
        /\ \E j \in Saves : j < i
        /\ Len(RoisBefore(i)) = 2
        /\ \E a \in Adds : a > i

----------------------------------------------------------------------------
(* Properties of the codec (specifications SpecCodec and SpecLong) *)

\* the stored value of a field of the layout placed at the 0-based offset
Stored(buf, dtype, base, name) ==
    LET i   == CHOOSE j \in 1..Len(dtype) : dtype[j][1] = name
        off == base + FieldOffset(dtype, i)
    IN  FieldValue(dtype[i][2], SubSeq(buf, off + 1, off + TypeSize(dtype[i][2])))

\* UTF-16 code units of a string: two for a character outside the BMP
CodeUnits(str) ==
    Len(str) + Cardinality({i \in 1..Len(str) : str[i] >= 65536})

\* the name the last imagej_create_roi call used
NameUsed == imagej_create_roi_name(params.name, params.t, params.index, params.rnd)

XMin == MinOf({params.points[i][1] : i \in 1..Len(params.points)})

YMin == MinOf({params.points[i][2] : i \in 1..Len(params.points)})

InInt16(v) == v >= 0 - 32768 /\ v <= 32767

\* what C3 concludes: the decoder returns the coordinates and, with the
\* decoded (left, top) added back, they are the points, in order
RoundTrips ==
    /\ parsed.ok
    /\ parsed.coordinates # None
    /\ Len(parsed.coordinates[1]) = Len(params.points)
    /\ \A i \in 1..Len(params.points) :
          /\ parsed.coordinates[1][i][1] + parsed.fields["left"]
                = params.points[i][1]
          /\ parsed.coordinates[1][i][2] + parsed.fields["top"]
                = params.points[i][2]

\* imagej_parse_overlay was applied to imagej_create_roi(P) for a P of at
\* least one point whose translated coordinates fit in 16 bits
EncodedThenParsed ==
    /\ step = "parsed"
    /\ patch.kind = "none"
    /\ params.name = None
    /\ Len(params.points) >= 1
    /\ LET xmin == XMin
           ymin == YMin
       IN  \A i \in 1..Len(params.points) :
              /\ InInt16(params.points[i][1] - xmin)
              /\ InInt16(params.points[i][2] - ymin)

C4_OffsetInvariants ==
    step # "start" =>
        LET H   == IMAGEJ_ROI_HEADER
            H2  == IMAGEJ_ROI_HEADER2
            n   == Stored(encoded, H, 0, "n_coordinates")
            h2o == Stored(encoded, H, 0, "header2_offset")
            no  == Stored(encoded, H2, h2o, "name_offset")
        IN  /\ h2o = ItemSize(H) + 4 * n
            /\ no = h2o + ItemSize(H2)
            /\ Len(encoded) = no + 2 * CodeUnits(NameUsed)

\* a buffer the decoder can read in full: both headers inside it, and the
\* name, when there is one, inside it and valid UTF-16
WellFormed(buf) ==
    /\ Len(buf) >= 64
    /\ LET h2o == SignedBE(SubSeq(buf, 61, 64)) IN
       /\ h2o >= 0
       /\ h2o + 52 <= Len(buf)
       /\ LET no == SignedBE(SubSeq(buf, h2o + 17, h2o + 20))
              nl == SignedBE(SubSeq(buf, h2o + 21, h2o + 24))
          IN  \/ no = 0
              \/ /\ no > 0
                 /\ nl >= 0
                 /\ no + 2 * nl <= Len(buf)
                 /\ Utf16beDecode(SubSeq(buf, no + 1, no + 2 * nl)) # None

\* the name a well-formed buffer carries
NameIn(buf) ==
    LET h2o == SignedBE(SubSeq(buf, 61, 64))
        no  == SignedBE(SubSeq(buf, h2o + 17, h2o + 20))
        nl  == SignedBE(SubSeq(buf, h2o + 21, h2o + 24))
    IN  IF no = 0 THEN <<>>
        ELSE Utf16beDecode(SubSeq(buf, no + 1, no + 2 * nl))[1]

\* roi_type as stored: the signed byte at offset 6
RoiTypeIn(buf) == IF buf[7] >= 128 THEN buf[7] - 256 ELSE buf[7]

PublicFields ==
    {"version", "roi_type", "top", "left", "bottom", "right", "n_coordinates",
     "x1", "y1", "x2", "y2", "stroke_width", "shape_roi_size", "stroke_color",
     "fill_color", "subtype", "options", "arrow_style_or_aspect_ratio",
     "arrow_head_size", "rounded_rect_arc_size", "position", "header2_offset",
     "c", "z", "t", "name_offset", "name_length", "overlay_label_color",
     "overlay_font_size", "available_byte1", "image_opacity", "image_size",
     "float_stroke_width", "roi_props_offset", "roi_props_length",
     "counters_offset"}

\* C6: decoding a well-formed record whose roi_type is not one of polygon
\* (0), freeline (4), polyline (5), freehand (7), traced (8), angle (9),
\* point (10) succeeds with coordinates absent, the name decoded and all 36
\* public fields of the two headers present with their stored values.
C6_UnsupportedTypeDecode ==
    (/\ step = "parsed"
     /\ WellFormed(data)
     /\ RoiTypeIn(data) \notin {0, 4, 5, 7, 8, 9, 10})
    => /\ parsed.ok
       /\ parsed.coordinates = None
       /\ parsed.name = NameIn(data)
       /\ DOMAIN parsed.fields = PublicFields
       /\ parsed.fields["roi_type"] = RoiTypeIn(data)
       /\ parsed.fields["version"] = 226
       /\ parsed.fields["options"] = 40
       /\ parsed.fields["position"] = params.t + 1
       /\ parsed.fields["n_coordinates"] = Len(params.points)
       /\ parsed.fields["header2_offset"] = 64 + 4 * Len(params.points)
       /\ parsed.fields["name_offset"] = 116 + 4 * Len(params.points)
       /\ parsed.fields["t"] = 0

\* C6 witness: a named record of two points typed 11 (outside the known
\* values) was decoded
C6_Witness ==
    /\ step = "parsed"
    /\ patch = [kind |-> "roi_type", value |-> 11]
    /\ RoiTypeIn(data) = 11
    /\ Len(params.points) = 2
    /\ params.name = Some(<<233, 98>>)
    /\ parsed.ok

\* C7 (original): the decoder fails whenever the buffer is shorter than the
\* primary header, or the stored header2_offset, or the stored name_offset
\* with name_length, points to bytes outside the buffer.
C7_DecodeBoundsErrors ==
    step = "parsed" =>
        LET size == ItemSize(IMAGEJ_ROI_HEADER)
            short == Len(data) < size
            h2o == SignedBE(SubSeq(data, size - 3, size))
            h2out == h2o < 0 \/ h2o + ItemSize(IMAGEJ_ROI_HEADER2) > Len(data)
            no == SignedBE(SubSeq(data, h2o + 17, h2o + 20))
            nl == SignedBE(SubSeq(data, h2o + 21, h2o + 24))
            nameout == no # 0 /\ (no < 0 \/ no + 2 * nl > Len(data))
        IN  (short \/ h2out \/ nameout) => ~parsed.ok

\* C8 as a statement about coordinates placed at the 0-based byte offset b:
\* the encoder's record holds the translated points there, first coordinates
\* then second coordinates, and the decoder's coordinates are the 16-bit
\* values read from there
CoordinateDataAt(b) ==
    /\ LET n    == Len(params.points)
           xmin == XMin
           ymin == YMin
       IN  \A i \in 1..n :
              /\ SubSeq(encoded, b + 2 * i - 1, b + 2 * i)
                    = BytesBE((params.points[i][1] - xmin) % 65536, 2)
              /\ SubSeq(encoded, b + 2 * n + 2 * i - 1, b + 2 * n + 2 * i)
                    = BytesBE((params.points[i][2] - ymin) % 65536, 2)
    /\ (step = "parsed" /\ parsed.ok /\ parsed.coordinates # None) =>
          LET m == Len(parsed.coordinates[1]) IN
          \A i \in 1..m :
             /\ parsed.coordinates[1][i][1]
                   = SignedBE(SubSeq(data, b + 2 * i - 1, b + 2 * i))
             /\ parsed.coordinates[1][i][2]
                   = SignedBE(SubSeq(data, b + 2 * m + 2 * i - 1,
                                     b + 2 * m + 2 * i))

\* C8 (as amended): the primary header has 24 fields whose sizes sum to 64
\* bytes; in every encoded record the coordinate data starts at byte 64 and
\* the decoder reads the coordinates starting at byte 64.
C8_PrimaryHeaderLayout ==
    step # "start" =>
        /\ Len(IMAGEJ_ROI_HEADER) = 24
        /\ ItemSize(IMAGEJ_ROI_HEADER) = 64
        /\ CoordinateDataAt(64)

\* C8 witness: a record of two points, the second off the origin of the
\* bounding box, was encoded and decoded with its coordinates
C8_Witness ==
    /\ step = "parsed"
    /\ patch.kind = "none"
    /\ parsed.ok
    /\ parsed.coordinates = Some(<< <<0, 0>>, <<5, 5>> >>)

\* C8 (original): the sizes of the 24 fields sum to 62 bytes; the coordinate
\* data starts at byte 62 and the decoder reads it from byte 62
C8_Original_HeaderIs62Bytes ==
    step # "start" =>
        /\ Len(IMAGEJ_ROI_HEADER) = 24
        /\ ItemSize(IMAGEJ_ROI_HEADER) = 62
        /\ CoordinateDataAt(62)

\* C9 (original): the stored name_length is the UTF-16 code-unit count of the
\* name, and decoding the encoded record returns the name.
C9_NameRoundTrip ==
    /\ (step # "start" /\ params.name # None) =>
          Stored(encoded, IMAGEJ_ROI_HEADER2,
                 Stored(encoded, IMAGEJ_ROI_HEADER, 0, "header2_offset"),
                 "name_length") = CodeUnits(params.name[1])
    /\ (step = "parsed" /\ patch.kind = "none" /\ params.name # None) =>
          /\ parsed.ok
          /\ parsed.name = params.name[1]

====
